---- MODULE Spec2Model ----
(***************************************************************************)
(* Startup coordination of api_mcp_fastapi_server.py: the /ready probe      *)
(* (startup_probe), the startup coordinator (lifespan), the published       *)
(* configuration (app.state.app_config) and the GET / handler (read_root).  *)
(*                                                                          *)
(* The environment (credential file, marker files) changes at any time.     *)
(* startup_probe and read_root are plain "def" handlers, which FastAPI runs  *)
(* on worker threads, so an invocation is a sequence of steps that may      *)
(* interleave with other invocations and with the environment.  lifespan is *)
(* a coroutine; its only await is the sleep of the wait loop.               *)
(***************************************************************************)
EXTENDS Integers, Sequences, FiniteSets

\* ------------------------------------------------------------------ bounds

\* lifespan: max_checks = 10
max_checks == 10

\* number of worker threads that can serve GET /ready at the same time
NumProbes == 2

\* number of worker threads that can serve GET / at the same time
NumRoot == 1

\* largest absolute value of a number sent to POST /api/calculator
MaxNum == 10

Probes == 1..NumProbes
Roots == 1..NumRoot

\* ------------------------------------------------------------------- state

VARIABLES
    adc,              \* credential material: "no_dir", "no_file" or "file"
    mount_env,        \* TRUE iff <mount root>/.env is a file
    cwd_env,          \* TRUE iff <current working directory>/.env is a file
    MOUNT_PATH,       \* environment variable MOUNT_PATH: "unset" or its value
    OPENAI_API_KEY,   \* environment variable: "unset", "empty" or "set"
    state,            \* position of lifespan
    local,            \* lifespan took the local-development branch
    path_bucket_mount,\* lifespan's local variable, "none" before it is bound
    checkLog,         \* results of the existence checks of the wait loop
    loads,            \* number of load_dotenv calls made by lifespan
    app_config,       \* app.state.app_config: <<>> or <<record>>
    abort_reason,     \* exception that left lifespan: "none" or its cause
    scratch_tested,   \* the scratch-path self-test was run
    ok_at_start,      \* a probe had answered 200 before lifespan's first step
    probe_succeeded,  \* module global probe_succeeded
    ppc,              \* position of each startup_probe invocation
    pafter,           \* the invocation began after some 200 had been returned
    last_probe,       \* last response of GET /ready: <<>> or <<record>>, with
                      \* what the invocation read
    ever_ok,          \* some invocation of GET /ready has returned 200
    rpc,              \* position of each read_root invocation
    robs,             \* app.state.app_config as read by the invocation
    last_root,        \* last response of GET /: <<>> or <<record>>
    calc_in,          \* body of a POST /api/calculator request: <<>> or <<record>>
    calc_out,         \* its response: <<>> or <<record>>
    fileio_fs,        \* filesystem behaviour met by a run of gcp_fileio_test
    fileio_out        \* how that run ended: <<>> or <<outcome>>

envVars == <<adc, mount_env, cwd_env, MOUNT_PATH, OPENAI_API_KEY>>
lifeVars == <<state, local, path_bucket_mount, checkLog, loads, app_config,
              abort_reason, scratch_tested, ok_at_start>>
probeVars == <<probe_succeeded, ppc, pafter, last_probe, ever_ok>>
rootVars == <<rpc, robs, last_root>>
pureVars == <<calc_in, calc_out, fileio_fs, fileio_out>>
vars == <<envVars, lifeVars, probeVars, rootVars, pureVars>>

\* ----------------------------------------------------------------- helpers

\* gcp_json_credentials_exist(): the gcloud folder exists and the file
\* application_default_credentials.json exists in it and is a file
gcp_json_credentials_exist(a) ==
    IF a = "no_dir" THEN FALSE
    ELSE IF a = "no_file" THEN FALSE
    ELSE TRUE

\* the mount root taken as /mnt/storage whatever MOUNT_PATH says
MountRoot_IgnoresEnv(mp) == "/mnt/storage"

\* Path(os.environ.get('MOUNT_PATH', '/mnt/storage'))
MountRoot(mp) == IF mp = "unset" THEN "/mnt/storage" ELSE mp

\* dotenv_path.is_file() for dotenv_path = <root>/.env
dotenv_is_file(root, cwdFile, mountFile) ==
    IF root = "cwd" THEN cwdFile ELSE mountFile

\* load_dotenv(dotenv_path): a key of the file is set in the process
\* environment unless the environment already has it (override=False)
load_dotenv(cur, fileValue) ==
    IF cur = "unset" THEN fileValue ELSE cur

\* the record assigned to app.state.app_config
ConfigRecord(mount) ==
    [llm_provider |-> "openai",
     embedding_model |-> "text-embedding-3-small",
     max_step_iterations |-> 3,
     path_chroma_db |-> "/tmp/chroma_langchain_db",
     chroma_collection_name |-> "Biography_of_Christopher_Diaz",
     bucket_mount_path |-> mount]

\* The process serves requests while lifespan has neither raised nor
\* finished its shutdown part.
ProcessAlive == state \notin {"ABORTED", "SHUTTING_DOWN"}

\* lifespan is a coroutine on the server's event loop: a new request is
\* dispatched only while lifespan has not begun or is suspended, which it
\* is at "await asyncio.sleep(check_period)" and at its yield
LifespanSuspended == state \in {"NOT_STARTED", "SLEEPING", "READY_FOR_TRAFFIC"}

\* ------------------------------------------------------------------ Init

\* no POST /api/calculator request and no separate run of gcp_fileio_test
PureIdle ==
    /\ calc_in = <<>>
    /\ calc_out = <<>>
    /\ fileio_fs = <<>>
    /\ fileio_out = <<>>

Init ==
    /\ PureIdle
    /\ adc \in {"no_dir", "no_file", "file"}
    /\ mount_env \in BOOLEAN
    /\ cwd_env \in BOOLEAN
    /\ MOUNT_PATH \in {"unset", "/data"}
    /\ OPENAI_API_KEY \in {"unset", "set"}
    /\ state = "NOT_STARTED"
    /\ local = FALSE
    /\ path_bucket_mount = "none"
    /\ checkLog = <<>>
    /\ loads = 0
    /\ app_config = <<>>
    /\ abort_reason = "none"
    /\ scratch_tested = FALSE
    /\ ok_at_start = FALSE
    /\ probe_succeeded = FALSE
    /\ ppc = [p \in Probes |-> "idle"]
    /\ pafter = [p \in Probes |-> FALSE]
    /\ last_probe = <<>>
    /\ ever_ok = FALSE
    /\ rpc = [r \in Roots |-> "idle"]
    /\ robs = [r \in Roots |-> <<>>]
    /\ last_root = <<>>

\* ----------------------------------------------------------- environment

\* the credential material appears or disappears; nothing reads it after
\* lifespan has yielded or raised
CredsChange ==
    /\ state \notin {"READY_FOR_TRAFFIC", "SHUTTING_DOWN", "ABORTED"}
    /\ \E a \in {"no_dir", "no_file", "file"} : a # adc /\ adc' = a
    /\ UNCHANGED <<mount_env, cwd_env, MOUNT_PATH, OPENAI_API_KEY>>
    /\ UNCHANGED <<lifeVars, probeVars, rootVars, pureVars>>

\* the volume mount makes <mount root>/.env visible
MarkerAppears ==
    /\ ~mount_env
    /\ mount_env' = TRUE
    /\ UNCHANGED <<adc, cwd_env, MOUNT_PATH, OPENAI_API_KEY>>
    /\ UNCHANGED <<lifeVars, probeVars, rootVars, pureVars>>

\* <mount root>/.env is deleted, or the mount goes away
MarkerDeleted ==
    /\ mount_env
    /\ mount_env' = FALSE
    /\ UNCHANGED <<adc, cwd_env, MOUNT_PATH, OPENAI_API_KEY>>
    /\ UNCHANGED <<lifeVars, probeVars, rootVars, pureVars>>

\* ------------------------------------------------------ GET /ready

\* the response of an invocation of startup_probe
ProbeResponse(p, code, flagRead, checked, fileSeen, after) ==
    /\ last_probe' = <<[code |-> code,
                        status |-> IF code = 200 THEN "ok" ELSE "none",
                        detail |-> IF code = 200 THEN "none"
                                   ELSE "Waiting for GCS FUSE mount to stabilize.",
                        flag_read |-> flagRead, checked |-> checked,
                        file_seen |-> fileSeen, after |-> after]>>
    /\ ever_ok' = (ever_ok \/ code = 200)
    /\ ppc' = [ppc EXCEPT ![p] = "idle"]
    /\ pafter' = [pafter EXCEPT ![p] = FALSE]

\* "if probe_succeeded: return ..." read of the flag
ProbeBegin(p) ==
    /\ ProcessAlive
    /\ LifespanSuspended
    /\ ppc[p] = "idle"
    /\ IF probe_succeeded
       THEN /\ ProbeResponse(p, 200, TRUE, FALSE, FALSE, ever_ok)
            /\ UNCHANGED probe_succeeded
       ELSE /\ ppc' = [ppc EXCEPT ![p] = "check"]
            /\ pafter' = [pafter EXCEPT ![p] = ever_ok]
            /\ UNCHANGED <<probe_succeeded, last_probe, ever_ok>>
    /\ UNCHANGED <<envVars, lifeVars, rootVars, pureVars>>

\* startup_probe setting the flag before it knows the result of its check
ProbeCheck_SetsFlag(p) ==
    /\ ppc[p] = "check"
    /\ probe_succeeded' = TRUE
    /\ IF dotenv_is_file(MountRoot(MOUNT_PATH), cwd_env, mount_env)
       THEN /\ ppc' = [ppc EXCEPT ![p] = "set"]
            /\ UNCHANGED <<last_probe, ever_ok, pafter>>
       ELSE ProbeResponse(p, 503, FALSE, TRUE, FALSE, pafter[p])
    /\ UNCHANGED <<envVars, lifeVars, rootVars, pureVars>>

\* startup_probe clearing the flag when its check finds no file
ProbeCheck_ClearsFlag(p) ==
    /\ ppc[p] = "check"
    /\ IF dotenv_is_file(MountRoot(MOUNT_PATH), cwd_env, mount_env)
       THEN /\ ppc' = [ppc EXCEPT ![p] = "set"]
            /\ UNCHANGED <<last_probe, ever_ok, pafter, probe_succeeded>>
       ELSE /\ ProbeResponse(p, 503, FALSE, TRUE, FALSE, pafter[p])
            /\ probe_succeeded' = FALSE
    /\ UNCHANGED <<envVars, lifeVars, rootVars, pureVars>>

\* startup_probe with the two branches of the check exchanged
ProbeCheck_Inverted(p) ==
    /\ ppc[p] = "check"
    /\ IF ~dotenv_is_file(MountRoot(MOUNT_PATH), cwd_env, mount_env)
       THEN /\ ppc' = [ppc EXCEPT ![p] = "set"]
            /\ UNCHANGED <<last_probe, ever_ok, pafter>>
       ELSE ProbeResponse(p, 503, FALSE, TRUE, TRUE, pafter[p])
    /\ UNCHANGED probe_succeeded
    /\ UNCHANGED <<envVars, lifeVars, rootVars, pureVars>>

\* "if dotenv_path.is_file(): ... else: raise HTTPException(503)"
ProbeCheck(p) ==
    /\ ppc[p] = "check"
    /\ IF dotenv_is_file(MountRoot(MOUNT_PATH), cwd_env, mount_env)
       THEN /\ ppc' = [ppc EXCEPT ![p] = "set"]
            /\ UNCHANGED <<last_probe, ever_ok, pafter>>
       ELSE ProbeResponse(p, 503, FALSE, TRUE, FALSE, pafter[p])
    /\ UNCHANGED probe_succeeded
    /\ UNCHANGED <<envVars, lifeVars, rootVars, pureVars>>

\* startup_probe without the assignment of the flag
ProbeSet_NoFlag(p) ==
    /\ ppc[p] = "set"
    /\ UNCHANGED probe_succeeded
    /\ ProbeResponse(p, 200, FALSE, TRUE, TRUE, pafter[p])
    /\ UNCHANGED <<envVars, lifeVars, rootVars, pureVars>>

\* "probe_succeeded = True; return ..."
ProbeSet(p) ==
    /\ ppc[p] = "set"
    /\ probe_succeeded' = TRUE
    /\ ProbeResponse(p, 200, FALSE, TRUE, TRUE, pafter[p])
    /\ UNCHANGED <<envVars, lifeVars, rootVars, pureVars>>

\* ------------------------------------------------------ gcp_fileio_test

\* what the filesystem does to the calls of one run of gcp_fileio_test
FsBehaviour ==
    [exists : BOOLEAN,      \* text_file_utf8.txt is there before the test
     unlink_ok : BOOLEAN,   \* unlink() removes it
     write_ok : BOOLEAN,    \* open(mode="w") and the writes succeed
     visible : BOOLEAN,     \* is_file() after the write
     read_ok : BOOLEAN,     \* open(mode="r") and readlines() succeed
     same : BOOLEAN]        \* the lines read are the lines written

\* gcp_fileio_test(path_mount): "raised" when an exception leaves it,
\* "returned" when it completes
gcp_fileio_test(fs) ==
    IF fs.exists /\ ~fs.unlink_ok THEN "raised"
    ELSE IF ~fs.write_ok THEN "raised"
    ELSE IF ~fs.visible THEN "raised"
    ELSE IF ~fs.read_ok THEN "raised"
    ELSE "returned"

\* the outcomes gcp_fileio_test can have
FileioOutcomes == {gcp_fileio_test(fs) : fs \in FsBehaviour}

\* --------------------------------------------------------------- lifespan

\* an exception leaves lifespan before its yield
Raise(reason) ==
    /\ state' = "ABORTED"
    /\ abort_reason' = reason

\* lifespan beginning only once GET /ready has set the flag
LifespanStart_AfterProbe ==
    /\ state = "NOT_STARTED"
    /\ probe_succeeded
    /\ state' = "DETECTING_ENVIRONMENT"
    /\ ok_at_start' = ever_ok
    /\ UNCHANGED <<local, path_bucket_mount, checkLog, loads, app_config,
                   abort_reason, scratch_tested>>
    /\ UNCHANGED <<envVars, probeVars, rootVars, pureVars>>

\* print("Application lifespan startup sequence initiated.")
LifespanStart ==
    /\ state = "NOT_STARTED"
    /\ state' = "DETECTING_ENVIRONMENT"
    /\ ok_at_start' = ever_ok
    /\ UNCHANGED <<local, path_bucket_mount, checkLog, loads, app_config,
                   abort_reason, scratch_tested>>
    /\ UNCHANGED <<envVars, probeVars, rootVars, pureVars>>

\* branch A without the check that .env is a file
DetectLocal_NoCheck ==
    /\ local' = TRUE
    /\ path_bucket_mount' = "cwd"
    /\ \E v \in {"unset", "empty", "set"} :
           OPENAI_API_KEY' = load_dotenv(OPENAI_API_KEY, v)
    /\ loads' = loads + 1
    /\ state' = "LOADING_CONFIG"
    /\ UNCHANGED abort_reason

\* branch A: path_bucket_mount = cwd; raise when .env is no file there,
\* else load_dotenv
DetectLocal ==
    /\ local' = TRUE
    /\ path_bucket_mount' = "cwd"
    /\ IF ~dotenv_is_file("cwd", cwd_env, mount_env)
       THEN /\ Raise("local_env_missing")
            /\ UNCHANGED <<loads, OPENAI_API_KEY>>
       ELSE /\ \E v \in {"unset", "empty", "set"} :
                   OPENAI_API_KEY' = load_dotenv(OPENAI_API_KEY, v)
            /\ loads' = loads + 1
            /\ state' = "LOADING_CONFIG"
            /\ UNCHANGED abort_reason

\* branch B: path_bucket_mount = MOUNT_PATH or /mnt/storage, then the wait loop
DetectDeployed ==
    /\ local' = FALSE
    /\ path_bucket_mount' = MountRoot(MOUNT_PATH)
    /\ state' = "AWAITING_MOUNT"
    /\ UNCHANGED <<loads, OPENAI_API_KEY, abort_reason>>

\* "if gcp_json_credentials_exist(): ... else: ..."
DetectEnvironment ==
    /\ state = "DETECTING_ENVIRONMENT"
    /\ IF gcp_json_credentials_exist(adc) THEN DetectLocal ELSE DetectDeployed
    /\ UNCHANGED <<checkLog, app_config, scratch_tested, ok_at_start>>
    /\ UNCHANGED <<adc, mount_env, cwd_env, MOUNT_PATH>>
    /\ UNCHANGED <<probeVars, rootVars, pureVars>>

\* the iteration going on to the next check without the awaited sleep
WaitCheck_NoSleep ==
    /\ state = "AWAITING_MOUNT"
    /\ IF dotenv_is_file(path_bucket_mount, cwd_env, mount_env)
       THEN /\ checkLog' = Append(checkLog, TRUE)
            /\ \E v \in {"unset", "empty", "set"} :
                   OPENAI_API_KEY' = load_dotenv(OPENAI_API_KEY, v)
            /\ loads' = loads + 1
            /\ state' = "LOADING_CONFIG"
       ELSE /\ checkLog' = Append(checkLog, FALSE)
            /\ state' = IF Len(checkLog) + 1 < max_checks
                        THEN "AWAITING_MOUNT" ELSE "LOADING_CONFIG"
            /\ UNCHANGED <<loads, OPENAI_API_KEY>>
    /\ UNCHANGED <<local, path_bucket_mount, app_config, abort_reason,
                   scratch_tested, ok_at_start>>
    /\ UNCHANGED <<adc, mount_env, cwd_env, MOUNT_PATH>>
    /\ UNCHANGED <<probeVars, rootVars, pureVars>>

\* the iteration without its break: the loop goes on after the file is found
WaitCheck_NoBreak ==
    /\ state = "AWAITING_MOUNT"
    /\ IF dotenv_is_file(path_bucket_mount, cwd_env, mount_env)
       THEN /\ checkLog' = Append(checkLog, TRUE)
            /\ \E v \in {"unset", "empty", "set"} :
                   OPENAI_API_KEY' = load_dotenv(OPENAI_API_KEY, v)
            /\ loads' = loads + 1
            /\ state' = "SLEEPING"
       ELSE /\ checkLog' = Append(checkLog, FALSE)
            /\ state' = "SLEEPING"
            /\ UNCHANGED <<loads, OPENAI_API_KEY>>
    /\ UNCHANGED <<local, path_bucket_mount, app_config, abort_reason,
                   scratch_tested, ok_at_start>>
    /\ UNCHANGED <<adc, mount_env, cwd_env, MOUNT_PATH>>
    /\ UNCHANGED <<probeVars, rootVars, pureVars>>

\* one iteration of "for i in range(max_checks)" up to its break or its sleep
WaitCheck ==
    /\ state = "AWAITING_MOUNT"
    /\ IF dotenv_is_file(path_bucket_mount, cwd_env, mount_env)
       THEN /\ checkLog' = Append(checkLog, TRUE)
            /\ \E v \in {"unset", "empty", "set"} :
                   OPENAI_API_KEY' = load_dotenv(OPENAI_API_KEY, v)
            /\ loads' = loads + 1
            /\ state' = "LOADING_CONFIG"
       ELSE /\ checkLog' = Append(checkLog, FALSE)
            /\ state' = "SLEEPING"
            /\ UNCHANGED <<loads, OPENAI_API_KEY>>
    /\ UNCHANGED <<local, path_bucket_mount, app_config, abort_reason,
                   scratch_tested, ok_at_start>>
    /\ UNCHANGED <<adc, mount_env, cwd_env, MOUNT_PATH>>
    /\ UNCHANGED <<probeVars, rootVars, pureVars>>

\* the loop over range(max_checks - 1)
WaitSleep_OffByOne ==
    /\ state = "SLEEPING"
    /\ IF Len(checkLog) < max_checks - 1
       THEN state' = "AWAITING_MOUNT"
       ELSE state' = "LOADING_CONFIG"
    /\ UNCHANGED <<local, path_bucket_mount, checkLog, loads, app_config,
                   abort_reason, scratch_tested, ok_at_start>>
    /\ UNCHANGED <<envVars, probeVars, rootVars, pureVars>>

\* the else clause of the for loop raising instead of printing its warning
WaitSleep_RaiseOnExhaust ==
    /\ state = "SLEEPING"
    /\ IF Len(checkLog) < max_checks
       THEN state' = "AWAITING_MOUNT" /\ UNCHANGED abort_reason
       ELSE Raise("mount_missing")
    /\ UNCHANGED <<local, path_bucket_mount, checkLog, loads, app_config,
                   scratch_tested, ok_at_start>>
    /\ UNCHANGED <<envVars, probeVars, rootVars, pureVars>>

\* the else clause of the for loop starting the detection again
WaitSleep_Redetect ==
    /\ state = "SLEEPING"
    /\ IF Len(checkLog) < max_checks
       THEN state' = "AWAITING_MOUNT" /\ UNCHANGED checkLog
       ELSE state' = "DETECTING_ENVIRONMENT" /\ checkLog' = <<>>
    /\ UNCHANGED <<local, path_bucket_mount, loads, app_config,
                   abort_reason, scratch_tested, ok_at_start>>
    /\ UNCHANGED <<envVars, probeVars, rootVars, pureVars>>

\* "while True" in place of "for i in range(max_checks)"
WaitSleep_Unbounded ==
    /\ state = "SLEEPING"
    /\ state' = "AWAITING_MOUNT"
    /\ UNCHANGED <<local, path_bucket_mount, checkLog, loads, app_config,
                   abort_reason, scratch_tested, ok_at_start>>
    /\ UNCHANGED <<envVars, probeVars, rootVars, pureVars>>

\* "await asyncio.sleep(check_period)" returns: the next iteration, or the
\* else clause of the for loop when range(max_checks) is exhausted
WaitSleep ==
    /\ state = "SLEEPING"
    /\ IF Len(checkLog) < max_checks
       THEN state' = "AWAITING_MOUNT"
       ELSE state' = "LOADING_CONFIG"
    /\ UNCHANGED <<local, path_bucket_mount, checkLog, loads, app_config,
                   abort_reason, scratch_tested, ok_at_start>>
    /\ UNCHANGED <<envVars, probeVars, rootVars, pureVars>>

\* lifespan without the assignment of app.state.app_config
PublishConfig_Skip ==
    /\ state = "LOADING_CONFIG"
    /\ state' = "SELF_TEST"
    /\ UNCHANGED <<local, path_bucket_mount, checkLog, loads, app_config,
                   abort_reason, scratch_tested, ok_at_start>>
    /\ UNCHANGED <<envVars, probeVars, rootVars, pureVars>>

\* lifespan calling load_dotenv again with the Configuration Record assigned
PublishConfig_Reload ==
    /\ state = "LOADING_CONFIG"
    /\ app_config' = <<ConfigRecord(path_bucket_mount)>>
    /\ loads' = loads + 1
    /\ state' = "SELF_TEST"
    /\ UNCHANGED <<local, path_bucket_mount, checkLog, abort_reason,
                   scratch_tested, ok_at_start>>
    /\ UNCHANGED <<envVars, probeVars, rootVars, pureVars>>

\* "app.state.app_config = {...}" and the three prints after it
PublishConfig ==
    /\ state = "LOADING_CONFIG"
    /\ app_config' = <<ConfigRecord(path_bucket_mount)>>
    /\ state' = "SELF_TEST"
    /\ UNCHANGED <<local, path_bucket_mount, checkLog, loads, abort_reason,
                   scratch_tested, ok_at_start>>
    /\ UNCHANGED <<envVars, probeVars, rootVars, pureVars>>

\* "gcp_fileio_test(app.state.app_config['bucket_mount_path'])"
SelfTestMount ==
    /\ state = "SELF_TEST"
    /\ \E outcome \in FileioOutcomes :
          IF outcome = "raised"
          THEN Raise("selftest_mount")
          ELSE state' = "SELF_TEST_SCRATCH" /\ UNCHANGED abort_reason
    /\ UNCHANGED <<local, path_bucket_mount, checkLog, loads, app_config,
                   scratch_tested, ok_at_start>>
    /\ UNCHANGED <<envVars, probeVars, rootVars, pureVars>>

\* "if not gcp_json_credentials_exist(): ... gcp_fileio_test(path_chroma_db)"
\* and the yield
SelfTestScratch ==
    /\ state = "SELF_TEST_SCRATCH"
    /\ IF ~gcp_json_credentials_exist(adc)
       THEN /\ scratch_tested' = TRUE
            /\ \E mkdir_ok \in BOOLEAN, outcome \in FileioOutcomes :
                  IF ~mkdir_ok \/ outcome = "raised"
                  THEN Raise("selftest_scratch")
                  ELSE state' = "READY_FOR_TRAFFIC" /\ UNCHANGED abort_reason
       ELSE /\ state' = "READY_FOR_TRAFFIC"
            /\ UNCHANGED <<abort_reason, scratch_tested>>
    /\ UNCHANGED <<local, path_bucket_mount, checkLog, loads, app_config,
                   ok_at_start>>
    /\ UNCHANGED <<envVars, probeVars, rootVars, pureVars>>

\* the server shuts down: the part of lifespan after the yield
Shutdown ==
    /\ state = "READY_FOR_TRAFFIC"
    /\ \A r \in Roots : rpc[r] = "idle"
    /\ \A p \in Probes : ppc[p] = "idle"
    /\ state' = "SHUTTING_DOWN"
    /\ UNCHANGED <<local, path_bucket_mount, checkLog, loads, app_config,
                   abort_reason, scratch_tested, ok_at_start>>
    /\ UNCHANGED <<envVars, probeVars, rootVars, pureVars>>

\* ------------------------------------------------------------------ GET /

\* read_root changing an entry of the dictionary it has read
RootBegin_Mutates(r) ==
    /\ state = "READY_FOR_TRAFFIC"
    /\ rpc[r] = "idle"
    /\ app_config # <<>>
    /\ robs' = [robs EXCEPT ![r] = app_config]
    /\ app_config' = <<[app_config[1] EXCEPT !.bucket_mount_path = "changed"]>>
    /\ rpc' = [rpc EXCEPT ![r] = "key"]
    /\ UNCHANGED last_root
    /\ UNCHANGED <<state, local, path_bucket_mount, checkLog, loads,
                   abort_reason, scratch_tested, ok_at_start>>
    /\ UNCHANGED <<envVars, probeVars, pureVars>>

\* "config = app.state.app_config" and the prints of its entries; the
\* server routes GET / only after lifespan has yielded
RootBegin(r) ==
    /\ state = "READY_FOR_TRAFFIC"
    /\ rpc[r] = "idle"
    /\ robs' = [robs EXCEPT ![r] = app_config]
    /\ IF app_config = <<>>
       THEN /\ last_root' = <<[code |-> 500, status |-> "error",
                               message |-> "none", config |-> <<>>]>>
            /\ UNCHANGED rpc
       ELSE /\ rpc' = [rpc EXCEPT ![r] = "key"]
            /\ UNCHANGED last_root
    /\ UNCHANGED <<envVars, lifeVars, probeVars, pureVars>>

\* read_root testing "openai_key_val is not None" instead of its truth value
RootRespond_NoneCheck(r) ==
    /\ rpc[r] = "key"
    /\ last_root' = <<[code |-> 200, status |-> "ok",
                       message |-> IF OPENAI_API_KEY # "unset"
                                   THEN "Server is running. See /docs for API schema."
                                   ELSE "Server is running, BUT OPENAI_API_KEY not found!.",
                       config |-> robs[r]]>>
    /\ rpc' = [rpc EXCEPT ![r] = "idle"]
    /\ UNCHANGED robs
    /\ UNCHANGED <<envVars, lifeVars, probeVars, pureVars>>

\* "openai_key_val = os.environ.get("OPENAI_API_KEY")" and the two returns
RootRespond(r) ==
    /\ rpc[r] = "key"
    /\ last_root' = <<[code |-> 200, status |-> "ok",
                       message |-> IF OPENAI_API_KEY = "set"
                                   THEN "Server is running. See /docs for API schema."
                                   ELSE "Server is running, BUT OPENAI_API_KEY not found!.",
                       config |-> robs[r]]>>
    /\ rpc' = [rpc EXCEPT ![r] = "idle"]
    /\ UNCHANGED robs
    /\ UNCHANGED <<envVars, lifeVars, probeVars, pureVars>>

\* ---------------------------------------------------- POST /api/calculator

\* values of ToolInput: num1 and num2 whole numbers, operation any string
ToolInput ==
    [num1 : (0 - MaxNum)..MaxNum,
     num2 : (0 - MaxNum)..MaxNum,
     operation : {"add", "multiply", "subtract", "ADD", ""}]

\* simple_calculator with "multiply" implemented
simple_calculator_Multiply(input_data) ==
    IF input_data.operation = "add"
    THEN [result |-> input_data.num1 + input_data.num2,
          message |-> <<"Successfully calculated the sum of",
                        input_data.num1, input_data.num2>>]
    ELSE IF input_data.operation = "multiply"
    THEN [result |-> input_data.num1 * input_data.num2,
          message |-> <<"Successfully calculated the product of",
                        input_data.num1, input_data.num2>>]
    ELSE [result |-> input_data.num1 + input_data.num2,
          message |-> <<"not supported yet. Defaulting to addition.",
                        input_data.operation>>]

\* simple_calculator(input_data): the ToolOutput it returns
simple_calculator(input_data) ==
    IF input_data.operation = "add"
    THEN [result |-> input_data.num1 + input_data.num2,
          message |-> <<"Successfully calculated the sum of",
                        input_data.num1, input_data.num2>>]
    ELSE [result |-> input_data.num1 + input_data.num2,
          message |-> <<"not supported yet. Defaulting to addition.",
                        input_data.operation>>]

\* the state of a deployed process whose lifespan found the marker file at
\* its first check and is at position st, with no request served yet
SystemAt(st, tested) ==
    /\ adc = "no_dir"
    /\ mount_env = TRUE
    /\ cwd_env = FALSE
    /\ MOUNT_PATH = "unset"
    /\ OPENAI_API_KEY = "set"
    /\ state = st
    /\ local = FALSE
    /\ path_bucket_mount = MountRoot("unset")
    /\ checkLog = <<TRUE>>
    /\ loads = 1
    /\ app_config = <<ConfigRecord(MountRoot("unset"))>>
    /\ abort_reason = "none"
    /\ scratch_tested = tested
    /\ ok_at_start = FALSE
    /\ probe_succeeded = FALSE
    /\ ppc = [p \in Probes |-> "idle"]
    /\ pafter = [p \in Probes |-> FALSE]
    /\ last_probe = <<>>
    /\ ever_ok = FALSE
    /\ rpc = [r \in Roots |-> "idle"]
    /\ robs = [r \in Roots |-> <<>>]
    /\ last_root = <<>>

\* a POST /api/calculator request with any valid body arrives after the yield
InitCalc ==
    /\ SystemAt("READY_FOR_TRAFFIC", TRUE)
    /\ calc_in \in {<<input_data>> : input_data \in ToolInput}
    /\ calc_out = <<>>
    /\ fileio_fs = <<>>
    /\ fileio_out = <<>>

\* the handler of POST /api/calculator
PostCalculator ==
    /\ state = "READY_FOR_TRAFFIC"
    /\ calc_in # <<>>
    /\ calc_out = <<>>
    /\ calc_out' = <<simple_calculator(calc_in[1])>>
    /\ UNCHANGED <<calc_in, fileio_fs, fileio_out>>
    /\ UNCHANGED <<envVars, lifeVars, probeVars, rootVars>>

NextCalc == PostCalculator

SpecCalc == InitCalc /\ [][NextCalc]_vars

\* --------------------------------------- gcp_fileio_test, one run of it

\* lifespan is about to call gcp_fileio_test on a filesystem that behaves
\* in any of the ways of FsBehaviour
InitFileio ==
    /\ SystemAt("SELF_TEST", FALSE)
    /\ fileio_fs \in {<<fs>> : fs \in FsBehaviour}
    /\ fileio_out = <<>>
    /\ calc_in = <<>>
    /\ calc_out = <<>>

\* the call of gcp_fileio_test
RunFileioTest ==
    /\ state = "SELF_TEST"
    /\ fileio_fs # <<>>
    /\ fileio_out = <<>>
    /\ fileio_out' = <<gcp_fileio_test(fileio_fs[1])>>
    /\ UNCHANGED <<calc_in, calc_out, fileio_fs>>
    /\ UNCHANGED <<envVars, lifeVars, probeVars, rootVars>>

NextFileio == RunFileioTest

SpecFileio == InitFileio /\ [][NextFileio]_vars

\* ------------------------------------------------------------------ Spec

Next ==
    \/ CredsChange
    \/ MarkerAppears
    \/ MarkerDeleted
    \/ \E p \in Probes : ProbeBegin(p)
    \/ \E p \in Probes : ProbeCheck(p)
    \/ \E p \in Probes : ProbeSet(p)
    \/ LifespanStart
    \/ DetectEnvironment
    \/ WaitCheck
    \/ WaitSleep
    \/ PublishConfig
    \/ SelfTestMount
    \/ SelfTestScratch
    \/ Shutdown
    \/ \E r \in Roots : RootBegin(r)
    \/ \E r \in Roots : RootRespond(r)

Spec == Init /\ [][Next]_vars

\* the steps of lifespan up to its yield
LifespanStep ==
    \/ LifespanStart
    \/ DetectEnvironment
    \/ WaitCheck
    \/ WaitSleep
    \/ PublishConfig
    \/ SelfTestMount
    \/ SelfTestScratch

\* the process up to the yield of lifespan: the environment, GET /ready and
\* lifespan; GET / is served, and the server shuts down, only after the yield
NextStartup ==
    \/ CredsChange
    \/ MarkerAppears
    \/ MarkerDeleted
    \/ \E p \in Probes : ProbeBegin(p)
    \/ \E p \in Probes : ProbeCheck(p)
    \/ \E p \in Probes : ProbeSet(p)
    \/ LifespanStep

\* the server starts lifespan and its event loop resumes it after every
\* "await asyncio.sleep(check_period)"; every call lifespan makes returns or
\* raises; requests and the environment are under no obligation
SpecLive == Init /\ [][NextStartup]_vars /\ WF_vars(LifespanStep)

\* ---------------------------------------------------------------- claims

\* lifespan is in branch B (deployed) and past its wait loop
PastWaitLoop ==
    /\ ~local
    /\ state \in {"LOADING_CONFIG", "SELF_TEST", "SELF_TEST_SCRATCH",
                  "READY_FOR_TRAFFIC", "SHUTTING_DOWN", "ABORTED"}

\* some check of the wait loop found the marker file
LoopFound == \E n \in 1..Len(checkLog) : checkLog[n]

\* C1: an invocation of GET /ready that begins after some invocation has
\* returned 200 returns 200, whatever happened to the marker file meanwhile.
C1_ProbeMonotonic ==
    /\ last_probe # <<>> => (last_probe[1].after => last_probe[1].code = 200)
    /\ \A p \in Probes : ppc[p] # "idle" => ~pafter[p]

\* a 200 answered after an earlier 200 while the marker file is gone
C1_Witness ==
    /\ last_probe # <<>>
    /\ last_probe[1].after
    /\ last_probe[1].code = 200
    /\ last_probe[1].flag_read
    /\ ~mount_env

\* C2: while GET / is being handled, lifespan has published
\* app.state.app_config and has yielded (READY_FOR_TRAFFIC); the handler
\* reads the published record and no response of GET / is built without it.
C2_RootSeesConfig ==
    /\ \A r \in Roots : rpc[r] # "idle" =>
          /\ state = "READY_FOR_TRAFFIC"
          /\ app_config # <<>>
          /\ robs[r] = app_config
    /\ last_root # <<>> => (last_root[1].code = 200 /\ last_root[1].config # <<>>)

\* GET / in flight with the published record read, GET /ready also served
C2_Witness ==
    /\ \E r \in Roots : rpc[r] = "key" /\ robs[r] # <<>>
    /\ last_probe # <<>>

C4_StartsAfterProbe == state # "NOT_STARTED" => ok_at_start

\* C5: GET /ready answers 200 with status "ok" exactly when it read the flag
\* as true or its one check found the marker file, and 503 with a detail
\* string otherwise; it checks the file only when it read the flag as false.
C5_ProbeAnswer ==
    last_probe # <<>> =>
        LET r == last_probe[1] IN
        /\ r.code \in {200, 503}
        /\ (r.code = 200) <=> (r.flag_read \/ r.file_seen)
        /\ r.code = 200 => r.status = "ok"
        /\ r.code = 503 => (r.detail # "none" /\ r.checked /\ ~r.flag_read)
        /\ r.flag_read => ~r.checked

\* a 503 while the flag is false and the marker absent at the check
C5_Witness ==
    /\ last_probe # <<>>
    /\ last_probe[1].code = 503
    /\ ~last_probe[1].file_seen
    /\ ~probe_succeeded

\* C6: when check N of the wait loop is the first to find the marker file,
\* the loop has made exactly N checks (N <= max_checks), has loaded the
\* configuration once and makes no further check.
C6_FoundAtN ==
    /\ Len(checkLog) <= max_checks
    /\ \A n \in 1..Len(checkLog) : checkLog[n] =>
          /\ n = Len(checkLog)
          /\ loads = 1
          /\ state \notin {"AWAITING_MOUNT", "SLEEPING"}

\* the marker file found by the last allowed check
C6_Witness ==
    /\ Len(checkLog) = max_checks
    /\ checkLog[max_checks]
    /\ state = "READY_FOR_TRAFFIC"

\* the wait loop has ended without finding the marker file
LoopExhausted == PastWaitLoop /\ ~LoopFound

\* C7: when every check of the wait loop finds the marker file absent, the
\* loop ends after exactly max_checks checks, without an exception and with
\* no configuration file loaded, and lifespan goes on to LOADING_CONFIG.
C7_Exhausted ==
    /\ [](LoopExhausted => (Len(checkLog) = max_checks /\ loads = 0))
    /\ [][(state = "SLEEPING" /\ state' # "SLEEPING" /\ Len(checkLog) = max_checks)
            => /\ state' = "LOADING_CONFIG"
               /\ abort_reason' = "none"
               /\ loads' = 0
               /\ checkLog' = checkLog]_vars

\* the loop has just ended after max_checks failed checks
C7_Witness ==
    /\ LoopExhausted
    /\ state = "LOADING_CONFIG"
    /\ Len(checkLog) = max_checks
    /\ abort_reason = "none"

\* C8 as stated: in deployed mode, when the wait loop never finds the marker
\* file, startup is not aborted.
C8_DegradeNotCrash == LoopExhausted => state # "ABORTED"

\* C9: in local-development mode with no .env in the working directory
\* lifespan raises: app.state.app_config is never assigned, READY_FOR_TRAFFIC
\* is never reached and GET / is never served.
C9_LocalEnvMissingFatal ==
    (local /\ ~cwd_env) =>
        /\ state = "ABORTED"
        /\ abort_reason = "local_env_missing"
        /\ app_config = <<>>
        /\ loads = 0
        /\ last_root = <<>>
        /\ \A r \in Roots : rpc[r] = "idle"

\* lifespan has raised in branch A
C9_Witness ==
    /\ local
    /\ ~cwd_env
    /\ state = "ABORTED"

\* C10 as stated: a failure of the self-test does not abort startup.
C10_SelfTestNotFatal ==
    ~(state = "ABORTED" /\ abort_reason \in {"selftest_mount", "selftest_scratch"})

Phase(st) ==
    CASE st = "SLEEPING" -> "AWAITING_MOUNT"
      [] st \in {"SELF_TEST", "SELF_TEST_SCRATCH"} -> "LOADING_CONFIG"
      [] OTHER -> st

\* the order of the coordinator's states; an exception ends the coordinator
Rank(ph) ==
    CASE ph = "NOT_STARTED" -> 0
      [] ph = "DETECTING_ENVIRONMENT" -> 1
      [] ph = "AWAITING_MOUNT" -> 2
      [] ph = "LOADING_CONFIG" -> 3
      [] ph = "READY_FOR_TRAFFIC" -> 4
      [] ph = "SHUTTING_DOWN" -> 5
      [] OTHER -> 6

\* lifespan has been in its wait loop
EnteredAwaiting == state \in {"AWAITING_MOUNT", "SLEEPING"} \/ Len(checkLog) > 0

\* C12: the coordinator's states only advance, in the order NOT_STARTED,
\* DETECTING_ENVIRONMENT, AWAITING_MOUNT, LOADING_CONFIG, READY_FOR_TRAFFIC,
\* SHUTTING_DOWN, so none is entered twice and lifespan never starts again;
\* AWAITING_MOUNT is entered exactly in deployed mode; SHUTTING_DOWN is
\* entered only from READY_FOR_TRAFFIC.  An exception ends the coordinator.
C12_StateOrder ==
    /\ [][Phase(state') # Phase(state) =>
            Rank(Phase(state')) > Rank(Phase(state))]_vars
    /\ [][(state' = "SHUTTING_DOWN" /\ state # "SHUTTING_DOWN") =>
            state = "READY_FOR_TRAFFIC"]_vars
    /\ [][state = "ABORTED" => state' = "ABORTED"]_vars
    /\ [](state \notin {"NOT_STARTED", "DETECTING_ENVIRONMENT"} =>
            (EnteredAwaiting <=> ~local))

\* a deployed run that went through every state, several checks in its loop
C12_Witness ==
    /\ state = "SHUTTING_DOWN"
    /\ ~local
    /\ Len(checkLog) > 1
    /\ app_config # <<>>

\* a step of an invocation of startup_probe
ProbeStep ==
    \/ ppc' # ppc
    \/ last_probe' # last_probe
    \/ probe_succeeded' # probe_succeeded
    \/ ever_ok' # ever_ok

\* C13: with invocations of GET /ready interleaved step by step with each
\* other and with the marker file appearing and disappearing, an invocation
\* writes no shared state but probe_succeeded, the flag never goes back to
\* false, and an invocation that begins after a 200 returns 200.
C13_ProbeConcurrent ==
    /\ [][probe_succeeded => probe_succeeded']_vars
    /\ [][ProbeStep => UNCHANGED <<envVars, lifeVars, rootVars, pureVars>>]_vars
    /\ [](last_probe # <<>> /\ last_probe[1].after => last_probe[1].code = 200)

\* two invocations past their check at once, both about to set the flag,
\* while the marker file is gone again
C13_Witness ==
    /\ \E p, q \in Probes : p # q /\ ppc[p] = "set" /\ ppc[q] = "set"
    /\ ~mount_env

\* C14: POST /api/calculator answers every operation string and every pair
\* of numbers with result num1 + num2, and its message says that the
\* operation is unsupported exactly when the operation is not "add".
C14_CalculatorAdds ==
    calc_out # <<>> =>
        LET i == calc_in[1]
            o == calc_out[1]
        IN /\ o.result = i.num1 + i.num2
           /\ (o.message[1] = "not supported yet. Defaulting to addition.")
                  <=> (i.operation # "add")
           /\ i.operation # "add" => o.message[2] = i.operation

\* "multiply" with 10 and 3 answered with 13 and the unsupported message
C14_Witness ==
    /\ calc_out # <<>>
    /\ calc_in[1] = [num1 |-> 10, num2 |-> 3, operation |-> "multiply"]
    /\ calc_out[1].result = 13
    /\ calc_out[1].message[1] = "not supported yet. Defaulting to addition."

\* a step of an invocation of read_root
RootStep == rpc' # rpc \/ last_root' # last_root \/ robs' # robs

\* C15: every response of GET / is a 200 with status "ok"; its message is
\* the degraded one exactly when OPENAI_API_KEY is absent or empty; and no
\* step of read_root changes app.state.app_config or probe_succeeded.
C15_RootAlwaysOk ==
    /\ [](last_root # <<>> =>
            /\ last_root[1].code = 200
            /\ last_root[1].status = "ok"
            /\ (last_root[1].message
                    = "Server is running, BUT OPENAI_API_KEY not found!.")
                   <=> (OPENAI_API_KEY \in {"unset", "empty"})
            /\ (last_root[1].message
                    = "Server is running. See /docs for API schema.")
                   <=> (OPENAI_API_KEY = "set"))
    /\ [][RootStep => UNCHANGED <<app_config, probe_succeeded, OPENAI_API_KEY>>]_vars

\* the degraded answer for an empty OPENAI_API_KEY
C15_Witness ==
    /\ last_root # <<>>
    /\ OPENAI_API_KEY = "empty"
    /\ last_root[1].message = "Server is running, BUT OPENAI_API_KEY not found!."
    /\ state = "READY_FOR_TRAFFIC"

\* C16: probe_succeeded is false at first; it changes only in the step of an
\* invocation whose check found the marker file, which answers 200; an
\* invocation that answers 503 leaves it unchanged; an invocation that finds
\* it true answers without a check of the filesystem.
C16_FlagSetOnlyOnObservation ==
    /\ ~probe_succeeded
    /\ [][probe_succeeded' # probe_succeeded =>
            /\ probe_succeeded'
            /\ \E p \in Probes : ppc[p] = "set" /\ ppc'[p] = "idle"
            /\ last_probe'[1].file_seen
            /\ last_probe'[1].code = 200]_vars
    /\ [][(\E p \in Probes : ppc[p] = "check" /\ ppc'[p] = "idle") =>
            /\ last_probe'[1].code = 503
            /\ UNCHANGED probe_succeeded]_vars
    /\ [][\A p \in Probes : (probe_succeeded /\ ppc[p] = "idle") =>
            ppc'[p] = "idle"]_vars
    /\ [](last_probe # <<>> /\ last_probe[1].flag_read =>
            (probe_succeeded /\ ~last_probe[1].checked))
    /\ [](probe_succeeded => ever_ok)

\* the flag set by an invocation that saw the file, then a 200 without a check
C16_Witness ==
    /\ probe_succeeded
    /\ last_probe # <<>>
    /\ last_probe[1].flag_read
    /\ ~last_probe[1].checked
    /\ \E p \in Probes : ppc[p] = "set"

\* C17 as stated: the scratch-path self-test has run if and only if lifespan
\* took the deployed branch.
C17_ModeUsedConsistently ==
    state \in {"READY_FOR_TRAFFIC", "SHUTTING_DOWN"} => (scratch_tested <=> ~local)

\* an invocation of startup_probe begins
ProbeBeginStep ==
    \/ \E p \in Probes : ppc[p] = "idle" /\ ppc'[p] = "check"
    \/ ppc' = ppc /\ (last_probe' # last_probe \/ ever_ok' # ever_ok)

\* C18: before its yield lifespan is suspended only in the wait loop of the
\* deployed branch, after a check that failed, and it is suspended there
\* after every failed check, so that GET /ready can be served between two
\* checks; an invocation of startup_probe is never blocked: each of its
\* steps can be taken whatever lifespan is doing.
C18_OnlyWaitLoopSuspends ==
    /\ [](state = "SLEEPING" =>
            /\ ~local
            /\ Len(checkLog) >= 1
            /\ ~checkLog[Len(checkLog)]
            /\ \A p \in Probes : ppc[p] = "idle" => ENABLED ProbeBegin(p))
    /\ [][(Len(checkLog') > Len(checkLog) /\ ~checkLog'[Len(checkLog')]) =>
            state' = "SLEEPING"]_vars
    /\ [][(ProbeBeginStep /\ state \notin {"NOT_STARTED", "READY_FOR_TRAFFIC"}) =>
            state = "SLEEPING"]_vars
    /\ [](\A p \in Probes :
            /\ ppc[p] = "check" => ENABLED ProbeCheck(p)
            /\ ppc[p] = "set" => ENABLED ProbeSet(p))

\* GET /ready answered 503 between two checks of the wait loop
C18_Witness ==
    /\ state = "SLEEPING"
    /\ Len(checkLog) = 2
    /\ last_probe # <<>>
    /\ last_probe[1].code = 503
    /\ \E p \in Probes : ppc[p] = "check"

\* C19: the published bucket_mount_path is the working directory in
\* local-development mode and MOUNT_PATH, or /mnt/storage when MOUNT_PATH is
\* unset, in deployed mode; path_chroma_db is /tmp/chroma_langchain_db in
\* both modes.
C19_PublishedPaths ==
    app_config # <<>> =>
        /\ app_config[1].bucket_mount_path =
              IF local THEN "cwd"
              ELSE IF MOUNT_PATH = "unset" THEN "/mnt/storage"
              ELSE MOUNT_PATH
        /\ app_config[1].path_chroma_db = "/tmp/chroma_langchain_db"

\* deployed mode with MOUNT_PATH set
C19_Witness ==
    /\ app_config # <<>>
    /\ ~local
    /\ MOUNT_PATH = "/data"
    /\ app_config[1].bucket_mount_path = "/data"
    /\ state = "READY_FOR_TRAFFIC"

\* C20 as stated: when the lines read back differ from the lines written,
\* gcp_fileio_test does not complete normally.
C20_ReadBackVerified ==
    (/\ fileio_out # <<>>
     /\ fileio_fs[1].exists => fileio_fs[1].unlink_ok
     /\ fileio_fs[1].write_ok
     /\ fileio_fs[1].visible
     /\ fileio_fs[1].read_ok
     /\ ~fileio_fs[1].same)
        => fileio_out[1] = "raised"

\* C21: under fair scheduling of lifespan, whatever the marker file and the
\* credential material do, lifespan eventually reaches READY_FOR_TRAFFIC or
\* is left by an exception; it makes at most max_checks checks of the marker
\* file in deployed mode, and in local-development mode it makes none and
\* never sleeps.
C21_StartupTerminates ==
    /\ <>(state \in {"READY_FOR_TRAFFIC", "ABORTED"})
    /\ [](Len(checkLog) <= max_checks)
    /\ [](local => /\ checkLog = <<>>
                   /\ state \notin {"AWAITING_MOUNT", "SLEEPING"})

\* lifespan has yielded after max_checks checks that all failed, while the
\* credential material and the marker file both changed on the way
C21_Witness ==
    /\ state = "READY_FOR_TRAFFIC"
    /\ ~local
    /\ Len(checkLog) = max_checks
    /\ ~LoopFound
    /\ mount_env
    /\ gcp_json_credentials_exist(adc)

\* a step of lifespan
LifeStep == lifeVars' # lifeVars

\* lifespan has begun and has neither yielded nor raised
BeforeYield ==
    state \in {"DETECTING_ENVIRONMENT", "AWAITING_MOUNT", "SLEEPING",
               "LOADING_CONFIG", "SELF_TEST", "SELF_TEST_SCRATCH"}

LoadStep == loads' # loads

\* C23: load_dotenv is called at most once in a startup and never once
\* app.state.app_config is assigned; in the deployed branch the call
\* directly follows a check of the wait loop that found the marker file,
\* in the local branch it follows the check that .env is a file in the
\* working directory.
C23_LoadOnceBeforePublish ==
    /\ [](loads <= 1)
    /\ [](loads = 1 => IF local THEN checkLog = <<>> ELSE LoopFound)
    /\ [][LoadStep =>
            /\ loads' = loads + 1
            /\ app_config = <<>> /\ app_config' = <<>>
            /\ IF local'
               THEN /\ state = "DETECTING_ENVIRONMENT"
                    /\ gcp_json_credentials_exist(adc)
                    /\ dotenv_is_file("cwd", cwd_env, mount_env)
                    /\ checkLog' = <<>>
               ELSE /\ state = "AWAITING_MOUNT"
                    /\ dotenv_is_file(path_bucket_mount, cwd_env, mount_env)
                    /\ checkLog' = Append(checkLog, TRUE)]_vars
    /\ [][app_config' # app_config => (app_config = <<>> /\ loads' = loads)]_vars

\* the Configuration Record is assigned after the one load_dotenv of a wait
\* loop that found the marker file at a later check than its first
C23_Witness ==
    /\ state = "SELF_TEST"
    /\ app_config # <<>>
    /\ loads = 1
    /\ ~local
    /\ Len(checkLog) > 1
    /\ checkLog[Len(checkLog)]

====
